---- MODULE Spec2Model ----
(***************************************************************************)
(* The news summarisation pipeline of main_lang.py (reactive agent handed  *)
(* three tools) and replit.py (three-task crew behind a Flask form).       *)
(*                                                                         *)
(* One behaviour is one request: an entry point is called, the             *)
(* orchestrator runs the stages, each stage loop advances one article or   *)
(* one remote call at a time, and the request ends in "done" (a value was  *)
(* returned or a page rendered) or in "fault" (an uncaught exception).     *)
(*                                                                         *)
(* Orchestration.  replit.py hands the crew its three tasks in a list; the  *)
(* crew runs them in list order, each on the output of the one before,     *)
(* and tests nothing in between.  main_lang.py hands the agent the three   *)
(* stages as tools; which tool the agent calls next, and when it answers,  *)
(* is decided by the language model, so it is a free choice here (the      *)
(* pipeline order is one of the choices).                                  *)
(*                                                                         *)
(* Remote services are the environment: the search endpoint answers with   *)
(* any status and body, an inference request either fails (raises) or      *)
(* answers with a completion that is a fixed function of the prompt.  The  *)
(* counters httpCount and llmCount count the requests.get and llm.generate *)
(* calls made by the code of the two files.                                *)
(***************************************************************************)
EXTENDS Naturals, Sequences, FiniteSets, TLC

MaxArticles == 2       \* longest article list the search endpoint returns
MaxAgentSteps == 3     \* tool calls the reactive agent makes before it must answer

(***************************************************************************)
(* Python values.  A str is a sequence of one-character strings, a dict a  *)
(* record (a function from key names), a list a sequence of values.        *)
(***************************************************************************)
None == [kind |-> "none"]
Str(s) == [kind |-> "str", s |-> s]
Dict(d) == [kind |-> "dict", d |-> d]
List(items) == [kind |-> "list", items |-> items]

\* The characters of a key name, for the substring test `key in <str>`.
KeyChars(key) ==
    CASE key = "description" -> <<"d","e","s","c","r","i","p","t","i","o","n">>
      [] key = "error" -> <<"e","r","r","o","r">>
      [] key = "title" -> <<"t","i","t","l","e">>
      [] key = "sentiment" -> <<"s","e","n","t","i","m","e","n","t">>
      [] key = "categories" -> <<"c","a","t","e","g","o","r","i","e","s">>
      [] key = "summary" -> <<"s","u","m","m","a","r","y">>

\* Python truthiness of a query: None and the empty str are falsy, every
\* other str (whitespace included) is truthy.
Truthy(v) == v.kind = "str" /\ Len(v.s) > 0

\* needle occurs in hay (both sequences of characters).
Contains(hay, needle) ==
    \E k \in 1..Len(hay) :
        /\ k + Len(needle) <= Len(hay) + 1
        /\ SubSeq(hay, k, k + Len(needle) - 1) = needle

\* `key in x`: key membership for a dict, substring test for a str.
KeyIn(key, x) ==
    IF x.kind = "dict" THEN key \in DOMAIN x.d
    ELSE IF x.kind = "str" THEN Contains(x.s, KeyChars(key))
    ELSE FALSE

\* x[key] evaluates: a dict that has the key.  A missing key raises
\* KeyError, a str subscripted by a str raises TypeError.
CanIndex(x, key) == x.kind = "dict" /\ key \in DOMAIN x.d

\* The keys of a dict, in a fixed order.
RECURSIVE KeySeq(_)
KeySeq(keys) ==
    IF keys = {} THEN <<>>
    ELSE LET k == CHOOSE k \in keys : TRUE
         IN <<Str(KeyChars(k))>> \o KeySeq(keys \ {k})

\* `for article in v`: the elements of a list, the keys of a dict, the
\* characters of a str.
Iter(v) ==
    IF v.kind = "list" THEN v.items
    ELSE IF v.kind = "dict" THEN KeySeq(DOMAIN v.d)
    ELSE IF v.kind = "str" THEN [k \in 1..Len(v.s) |-> Str(<<v.s[k]>>)]
    ELSE <<>>

(***************************************************************************)
(* Inputs of the environment.                                              *)
(***************************************************************************)
Impl == {"main_lang", "replit"}

Queries == {Str(<<>>), Str(<<" ">>), Str(<<"a">>)}

\* The articles a search response is made of: two titles, a description
\* that is a text, empty or absent, and an article without a title.  A list
\* may hold the same article twice.
Articles ==
    { Dict([title |-> "t1", description |-> "d1"]),
      Dict([title |-> "t2", description |-> ""]),
      Dict([title |-> "t1"]),
      Dict([description |-> "d1"]) }

ArticleLists == UNION {[1..n -> Articles] : n \in 0..MaxArticles}

\* The JSON body of a search response: with or without an `articles` field.
Bodies == {Dict([articles |-> List(l)]) : l \in ArticleLists} \cup {Dict([status |-> "ok"])}

Statuses == {200, 500}

ErrorObj == Dict([error |-> "Failed to fetch news"])
NoQuery == Str(<<"No query provided.">>)

(***************************************************************************)
(* Prompts and completions.                                                *)
(***************************************************************************)
SentimentPrompt(description) == <<"Analyze the sentiment of this text: ", description>>
CategoryPrompt(description) == <<"Categorize this news article: ", description>>
SummaryPrompt(title, sentiment, categories) ==
    <<"Summarize this article: ", title, " - ", sentiment, " - ", categories>>

\* The completion of a prompt when the request succeeds.
Generate(prompt) == [completion |-> prompt]

(***************************************************************************)
(* State.                                                                  *)
(***************************************************************************)
VARIABLES
    impl,      \* which file runs: "main_lang" or "replit"
    entry,     \* how the request came in: "direct" (a call of run) or "web" (Flask)
    method,    \* HTTP method of the web request
    query,     \* the query the entry point received
    pc,        \* position of the request
    frame,     \* locals of the running stage: in, items, i, acc, sent, llm0, http0
    obs,       \* the value the orchestrator passes forward (latest stage output)
    last,      \* the latest stage invocation that returned, with its request counts
    trace,     \* the stages started so far, in order
    httpCount, \* search requests issued
    llmCount,  \* inference requests issued
    runCount,  \* calls of the pipeline entry point
    result,    \* return value of the pipeline entry point
    page,      \* what the front end rendered
    fault,     \* the uncaught exception, "none" when there is none
    failedAt   \* llmCount at the inference request that failed, 0 when none did

vars == <<impl, entry, method, query, pc, frame, obs, last, trace, httpCount,
          llmCount, runCount, result, page, fault, failedAt>>

NoFrame == [in |-> None, items |-> <<>>, i |-> 1, acc |-> <<>>, sent |-> None, llm0 |-> 0,
            http0 |-> 0]
NoLast == [stage |-> "none", in |-> None, out |-> None, calls |-> 0, gets |-> 0, resp |-> None]

HomePage == [template |-> "HOME"]
ResultPage(q, r) == [template |-> "RESULT", query |-> q, result |-> r]

Init ==
    /\ impl \in Impl
    /\ entry = "none"
    /\ method = "none"
    /\ query = None
    /\ pc = "idle"
    /\ frame = NoFrame
    /\ obs = None
    /\ last = NoLast
    /\ trace = <<>>
    /\ httpCount = 0
    /\ llmCount = 0
    /\ runCount = 0
    /\ result = None
    /\ page = None
    /\ fault = "none"
    /\ failedAt = 0

(***************************************************************************)
(* Entry points.                                                           *)
(***************************************************************************)
\* The guard left out: every query is passed on.
RunGuardMissing(q) == FALSE

\* `if not query: return "No query provided."`
RunGuard(q) == ~Truthy(q)

\* What the front end shows for the value the entry point returned.
Present(e, q, r) ==
    IF e = "web" THEN ResultPage(q, r) ELSE None

\* The entry point is called with q by front end e: the guard returns at
\* once, otherwise the orchestrator (agent.run / crew.kickoff) starts.
EnterRun(e, q) ==
    /\ runCount' = runCount + 1
    /\ IF RunGuard(q)
       THEN /\ result' = NoQuery
            /\ page' = Present(e, q, NoQuery)
            /\ pc' = "done"
            /\ obs' = obs
       ELSE /\ pc' = "orch"
            /\ obs' = q
            /\ UNCHANGED <<result, page>>

\* run_news_summarization(q) / NewsSummarizationApp.run(q) called directly.
DirectRun ==
    /\ pc = "idle"
    /\ \E q \in Queries \cup {None} :
        /\ entry' = "direct"
        /\ query' = q
        /\ EnterRun("direct", q)
    /\ UNCHANGED <<impl, method, frame, last, trace, httpCount, llmCount, fault, failedAt>>

\* The method test left out: a GET carrying a query runs the pipeline too.
HomeInvokesAnyMethod(m, q) == Truthy(q)

\* Whether home() hands the request to the pipeline.
HomeInvokes(m, q) == m = "POST" /\ Truthy(q)

\* home(): a GET or POST to "/" whose form carries q (None: no field).
HomeRequest ==
    /\ pc = "idle"
    /\ impl = "replit"
    /\ \E m \in {"GET", "POST"}, q \in Queries \cup {None} :
        /\ entry' = "web"
        /\ method' = m
        /\ query' = q
        /\ IF HomeInvokes(m, q)
           THEN EnterRun("web", q)
           ELSE /\ page' = HomePage
                /\ pc' = "done"
                /\ UNCHANGED <<runCount, result, obs>>
    /\ UNCHANGED <<impl, frame, last, trace, httpCount, llmCount, fault, failedAt>>

(***************************************************************************)
(* Orchestration.                                                          *)
(***************************************************************************)
\* A stage is called with input v.
StartStage(stage, v) ==
    /\ trace' = Append(trace, stage)
    /\ frame' = [in |-> v, items |-> Iter(v), i |-> 1, acc |-> <<>>, sent |-> None,
                 llm0 |-> llmCount, http0 |-> httpCount]
    /\ pc' = CASE stage = "retrieval" -> "fetch"
               [] stage = "enrichment" -> "analyze"
               [] stage = "condensation" -> "summarize"
    /\ UNCHANGED <<impl, entry, method, query, obs, last, httpCount, llmCount, runCount,
                   result, page, fault, failedAt>>

\* The entry point returns r to the front end.
RunReturn(r) ==
    /\ result' = r
    /\ page' = Present(entry, query, r)
    /\ pc' = "done"
    /\ UNCHANGED <<impl, entry, method, query, frame, obs, last, trace, httpCount,
                   llmCount, runCount, fault, failedAt>>

\* The task list written in another order.
CrewTasksSwapped == <<"enrichment", "retrieval", "condensation">>

\* The task list of the crew: tasks run in this order, once each.
CrewTasks == <<"retrieval", "enrichment", "condensation">>

\* The crew starts its next task on the previous task's output.
CrewNextTask ==
    /\ pc = "orch"
    /\ impl = "replit"
    /\ Len(trace) < Len(CrewTasks)
    /\ StartStage(CrewTasks[Len(trace) + 1], obs)

\* crew.kickoff() returns the last task's output.
CrewReturn ==
    /\ pc = "orch"
    /\ impl = "replit"
    /\ Len(trace) = Len(CrewTasks)
    /\ RunReturn(obs)

\* The tools the reactive agent may call next: any of the three.
AgentTools == {"retrieval", "enrichment", "condensation"}

\* The agent calls a tool of its choice on the latest observation.
AgentCallTool ==
    /\ pc = "orch"
    /\ impl = "main_lang"
    /\ Len(trace) < MaxAgentSteps
    /\ \E tool \in AgentTools : StartStage(tool, obs)

\* The agent answers: agent.run returns.
AgentFinish ==
    /\ pc = "orch"
    /\ impl = "main_lang"
    /\ RunReturn(obs)

\* An uncaught exception: it unwinds the stage, the orchestrator, the entry
\* point and the front end handler; nothing is returned or rendered.
Raise(kind) ==
    /\ pc' = "fault"
    /\ fault' = kind
    /\ UNCHANGED <<impl, entry, method, query, frame, obs, last, trace, runCount,
                   result, page>>

\* A stage returns v to the orchestrator (resp: the search response it got).
StageReturn(stage, v, resp) ==
    /\ obs' = v
    /\ last' = [stage |-> stage, in |-> frame.in, out |-> v,
                calls |-> llmCount' - frame.llm0, gets |-> httpCount' - frame.http0,
                resp |-> resp]
    /\ pc' = "orch"
    /\ frame' = NoFrame
    /\ UNCHANGED <<impl, entry, method, query, trace, runCount, result, page, fault>>

(***************************************************************************)
(* Retrieval: fetch_news / NewsCrawlerAgent.execute.                       *)
(***************************************************************************)
Ok(v) == [fault |-> "none", value |-> v]
Err(kind) == [fault |-> kind, value |-> None]

\* The body sent with a non-200 status; the code never reads it.
ErrorBody == Dict([status |-> "error"])

\* What the retrieval client does with a response.
FetchReturn(im, status, body) ==
    IF status = 200
    THEN IF im = "main_lang"
         THEN IF "articles" \in DOMAIN body.d THEN Ok(body.d.articles) ELSE Ok(List(<<>>))
         ELSE IF "articles" \in DOMAIN body.d THEN Ok(body.d.articles) ELSE Err("KeyError")
    ELSE Ok(ErrorObj)

\* requests.get(url) and the handling of its response.
HttpGet ==
    /\ pc = "fetch"
    /\ \E status \in Statuses :
       \E body \in (IF status = 200 THEN Bodies ELSE {ErrorBody}) :
        /\ httpCount' = httpCount + 1
        /\ UNCHANGED <<llmCount, failedAt>>
        /\ LET r == FetchReturn(impl, status, body)
           IN IF r.fault = "none"
              THEN StageReturn("retrieval", r.value, [status |-> status, body |-> body])
              ELSE Raise(r.fault)

(***************************************************************************)
(* Enrichment: analyze_articles / NewsAnalystAgent.execute.                *)
(***************************************************************************)
\* The guard written as a test of the value: an empty description is skipped.
EnrichSelectsNonEmpty(im, article) ==
    IF im = "main_lang"
    THEN KeyIn("description", article) /\ article.d.description # ""
    ELSE TRUE

\* The guard present in both files: replit.py drops the article as well.
EnrichSelectsGuarded(im, article) == KeyIn("description", article)

\* Whether the loop body runs for the article: main_lang.py guards it with
\* `if 'description' in article`, replit.py has no guard.
EnrichSelects(im, article) ==
    IF im = "main_lang" THEN KeyIn("description", article) ELSE TRUE

\* The record put at the front of the list.
ListPrepend(acc, record) == <<record>> \o acc

\* list.append(record)
ListAppend(acc, record) == Append(acc, record)

\* The exception article[key] raises when it does not evaluate.
IndexFault(x) == IF x.kind = "dict" THEN "KeyError" ELSE "TypeError"

\* The lookup written with the wrong key: it finds nothing, so main_lang.py
\* falls back on the default and replit.py raises.
TitleOfWrongKey(im, article) ==
    IF im = "main_lang" /\ article.kind = "dict" THEN Ok("") ELSE Err("KeyError")

\* The title put in the record: article.get("title", "") in main_lang.py,
\* article["title"] in replit.py.
TitleOf(im, article) ==
    IF CanIndex(article, "title") THEN Ok(article.d.title)
    ELSE IF im = "main_lang" /\ article.kind = "dict" THEN Ok("")
    ELSE Err(IF article.kind = "dict" THEN "KeyError" ELSE "AttributeError")

\* The record appended for an article.
AnalyzedRecord(title, sentiment, categories) ==
    Dict([title |-> title, sentiment |-> sentiment, categories |-> categories])

\* The loop head and the evaluation of the first prompt's f-string.
AnalyzeLoop ==
    /\ pc = "analyze"
    /\ UNCHANGED <<httpCount, llmCount, failedAt>>
    /\ IF frame.i > Len(frame.items)
       THEN StageReturn("enrichment", List(frame.acc), None)
       ELSE LET article == frame.items[frame.i]
            IN IF ~EnrichSelects(impl, article)
               THEN /\ frame' = [frame EXCEPT !.i = @ + 1]
                    /\ UNCHANGED <<impl, entry, method, query, pc, obs, last, trace,
                                   runCount, result, page, fault>>
               ELSE IF ~CanIndex(article, "description")
               THEN Raise(IndexFault(article))
               ELSE /\ pc' = "sentiment"
                    /\ UNCHANGED <<impl, entry, method, query, frame, obs, last, trace,
                                   runCount, result, page, fault>>

\* The failure caught inside the loop: the article is skipped and the loop
\* goes on, so a partial list is returned.
InferenceSkipsArticle ==
    /\ pc' = IF pc = "summary" THEN "summarize" ELSE "analyze"
    /\ frame' = [frame EXCEPT !.i = @ + 1, !.sent = None]
    /\ UNCHANGED <<impl, entry, method, query, obs, last, trace, runCount, result, page,
                   fault>>

\* An inference request fails: llm.generate raises and nothing catches it.
InferenceFails == Raise("InferenceError")

\* The environment's two answers to an inference request: it fails, or it
\* completes (and `completes` says what the code does next).
Inference(completes) ==
    /\ llmCount' = llmCount + 1
    /\ httpCount' = httpCount
    /\ \/ /\ failedAt' = llmCount + 1
          /\ InferenceFails
       \/ /\ failedAt' = failedAt
          /\ completes

\* sentiment = llm.generate(...)
SentimentRequest ==
    /\ pc = "sentiment"
    /\ Inference(
          /\ frame' = [frame EXCEPT
                !.sent = Generate(SentimentPrompt(frame.items[frame.i].d.description))]
          /\ pc' = "category"
          /\ UNCHANGED <<impl, entry, method, query, obs, last, trace, runCount, result,
                         page, fault>>)

\* categories = llm.generate(...), then analyzed.append(...)
CategoryRequest ==
    /\ pc = "category"
    /\ Inference(
          LET article == frame.items[frame.i]
              title == TitleOf(impl, article)
              categories == Generate(CategoryPrompt(article.d.description))
          IN IF title.fault # "none"
             THEN Raise(title.fault)
             ELSE /\ frame' = [frame EXCEPT
                        !.acc = ListAppend(@, AnalyzedRecord(title.value, frame.sent,
                                                             categories)),
                        !.sent = None,
                        !.i = @ + 1]
                  /\ pc' = "analyze"
                  /\ UNCHANGED <<impl, entry, method, query, obs, last, trace, runCount,
                                 result, page, fault>>)

(***************************************************************************)
(* Condensation: summarize_articles / NewsSummarizerAgent.execute.         *)
(***************************************************************************)
\* The keys the summary prompt reads, in the order the f-string reads them.
SummaryKeys == <<"title", "sentiment", "categories">>

\* The f-string of the summary prompt evaluates for the record.
CanSummarize(x) == \A k \in 1..Len(SummaryKeys) : CanIndex(x, SummaryKeys[k])

\* The record appended for an analyzed article.
SummaryRecord(article) ==
    Dict([title |-> article.d.title,
          summary |-> Generate(SummaryPrompt(article.d.title, article.d.sentiment,
                                             article.d.categories))])

\* The loop head and the evaluation of the prompt's f-string.
SummarizeLoop ==
    /\ pc = "summarize"
    /\ UNCHANGED <<httpCount, llmCount, failedAt>>
    /\ IF frame.i > Len(frame.items)
       THEN StageReturn("condensation", List(frame.acc), None)
       ELSE IF ~CanSummarize(frame.items[frame.i])
       THEN Raise(IndexFault(frame.items[frame.i]))
       ELSE /\ pc' = "summary"
            /\ UNCHANGED <<impl, entry, method, query, frame, obs, last, trace,
                           runCount, result, page, fault>>

\* summary = llm.generate(...), then summaries.append(...)
SummaryRequest ==
    /\ pc = "summary"
    /\ Inference(
          /\ frame' = [frame EXCEPT
                !.acc = ListAppend(@, SummaryRecord(frame.items[frame.i])),
                !.i = @ + 1]
          /\ pc' = "summarize"
          /\ UNCHANGED <<impl, entry, method, query, obs, last, trace, runCount, result,
                         page, fault>>)

(***************************************************************************)
(* Specification.                                                          *)
(***************************************************************************)
Next ==
    \/ DirectRun
    \/ HomeRequest
    \/ CrewNextTask
    \/ CrewReturn
    \/ AgentCallTool
    \/ AgentFinish
    \/ HttpGet
    \/ AnalyzeLoop
    \/ SentimentRequest
    \/ CategoryRequest
    \/ SummarizeLoop
    \/ SummaryRequest

Spec == Init /\ [][Next]_vars

(***************************************************************************)
(* Vocabulary of the properties.                                           *)
(***************************************************************************)
\* The run entered the pipeline entry point with a query that is empty (the
\* empty str or no value).
EmptyQuery(q) == q = None \/ q = Str(<<>>)

\* A query that consists of whitespace only.
IsSpaceChar(c) == c \in {" ", "\t", "\n"}
WhitespaceOnly(q) ==
    /\ q.kind = "str"
    /\ Len(q.s) > 0
    /\ \A k \in 1..Len(q.s) : IsSpaceChar(q.s[k])

\* The pipeline: retrieval, then enrichment, then condensation.
PipelineStages == <<"retrieval", "enrichment", "condensation">>

\* A list whose elements are all article objects that carry a title.
WellFormedArticles(v) ==
    /\ v.kind = "list"
    /\ \A k \in 1..Len(v.items) : v.items[k].kind = "dict" /\ "title" \in DOMAIN v.items[k].d

HasDescriptionField(a) == a.kind = "dict" /\ "description" \in DOMAIN a.d
HasNonEmptyDescription(a) == HasDescriptionField(a) /\ a.d.description # ""
HasTitleField(a) == a.kind = "dict" /\ "title" \in DOMAIN a.d

\* The titles of a sequence of records, in order.
TitlesOf(seq) == [k \in 1..Len(seq) |-> seq[k].d.title]

\* The stage that was started last.
CurrentStage == IF trace = <<>> THEN "none" ELSE trace[Len(trace)]

IsPrefix(a, b) == Len(a) <= Len(b) /\ SubSeq(b, 1, Len(a)) = a

\* The request is over: a value was returned or an exception escaped.
Over == pc \in {"done", "fault"}

(***************************************************************************)
(* C1.                                                                     *)
(***************************************************************************)
\* C1, as stated: an entry point called with an empty or whitespace-only
\* query returns "No query provided." at once, with no stage started and no
\* search or inference request.
C1_BlankQueryRejected ==
    (runCount > 0 /\ (EmptyQuery(query) \/ WhitespaceOnly(query)))
        => /\ pc = "done"
           /\ result = NoQuery
           /\ trace = <<>>
           /\ httpCount = 0
           /\ llmCount = 0

\* C1, amended: an entry point called with an empty query (the empty string
\* or no value) returns "No query provided." at once, with no stage started
\* and no search or inference request; a whitespace-only query is not
\* empty, it is handed to the orchestrator and is never answered with
\* "No query provided.".
C1_EmptyQueryRejected ==
    /\ (runCount > 0 /\ EmptyQuery(query))
        => /\ pc = "done"
           /\ result = NoQuery
           /\ trace = <<>>
           /\ httpCount = 0
           /\ llmCount = 0
    /\ (runCount > 0 /\ WhitespaceOnly(query)) => result # NoQuery

C1_Witness ==
    /\ runCount = 1
    /\ query = Str(<<>>)
    /\ pc = "done"
    /\ result = NoQuery

(***************************************************************************)
(* C2.                                                                     *)
(***************************************************************************)
\* C2, as stated: a request that ran the stages in pipeline order and whose
\* retrieval got a non-200 response ends by returning the error object,
\* with no later stage started and no inference request issued.
C2_Non200ReturnsError ==
    (Over /\ IsPrefix(trace, PipelineStages) /\ last.stage = "retrieval"
          /\ last.resp.status # 200)
        => /\ pc = "done"
           /\ result = ErrorObj
           /\ trace = <<"retrieval">>
           /\ llmCount = 0

C4_SummariesFollowInput ==
    last.stage = "condensation"
        => /\ last.out.kind = "list"
           /\ Len(last.out.items) = Len(Iter(last.in))
           /\ \A k \in 1..Len(last.out.items) :
                  last.out.items[k].d.title = Iter(last.in)[k].d.title

C4_Witness ==
    /\ last.stage = "condensation"
    /\ Len(last.in.items) = 2
    /\ TitlesOf(last.in.items) = <<"t2", "t1">>
    /\ TitlesOf(last.out.items) = <<"t2", "t1">>

(***************************************************************************)
(* C5.                                                                     *)
(***************************************************************************)
\* C5, as stated: an invocation of the retrieval client issues one GET and
\* returns, in both files and for every response: the article list of a 200
\* response (none when the body has no `articles` field), the error object
\* otherwise.  It never ends in an exception.
C5_RetrievalReturnsForEveryResponse ==
    /\ last.stage = "retrieval"
        => /\ last.gets = 1
           /\ last.out = IF last.resp.status # 200 THEN ErrorObj
                         ELSE IF "articles" \in DOMAIN last.resp.body.d
                              THEN last.resp.body.d.articles
                              ELSE List(<<>>)
    /\ ~(pc = "fault" /\ CurrentStage = "retrieval")

(***************************************************************************)
(* C6.                                                                     *)
(***************************************************************************)
\* The stages started so far are the first stages of the pipeline, each
\* started once and in order; the orchestrator is in control only when the
\* stage started last has returned; a run that returns has visited all three.
PipelineOrder ==
    /\ IsPrefix(trace, PipelineStages)
    /\ (pc = "orch" /\ trace # <<>>) => last.stage = CurrentStage
    /\ (pc = "done" /\ runCount > 0 /\ ~EmptyQuery(query)) => trace = PipelineStages

\* C6, as stated: under both orchestration styles a run with a non-empty
\* query visits retrieval, enrichment, condensation in that order, none
\* twice, none before the previous one returned, none skipped when the run
\* returns.
C6_FixedStageOrder == (runCount > 0 /\ ~EmptyQuery(query)) => PipelineOrder

\* C6, amended: under the task chain of replit.py a run with a non-empty
\* query visits retrieval, enrichment, condensation in that order, none
\* twice, none before the previous one returned, none skipped when the run
\* returns.  Under the reactive agent of main_lang.py the order is the
\* agent's choice: the code fixes none.
C6_FixedStageOrderInTaskChain ==
    (impl = "replit" /\ runCount > 0 /\ ~EmptyQuery(query)) => PipelineOrder

C6_Witness ==
    /\ impl = "replit"
    /\ pc = "done"
    /\ trace = PipelineStages
    /\ result.kind = "list"
    /\ Len(result.items) = 2

(***************************************************************************)
(* C7.                                                                     *)
(***************************************************************************)
\* C7: once an inference request has failed, the request is over with an
\* uncaught exception: no inference request was issued after the failed
\* one, nothing was returned and nothing rendered, and the stage's partial
\* list reached neither the orchestrator nor the caller.
C7_InferenceFailureIsFatal ==
    failedAt > 0
        => /\ pc = "fault"
           /\ fault = "InferenceError"
           /\ llmCount = failedAt
           /\ result = None
           /\ page = None
           /\ CurrentStage \in {"enrichment", "condensation"}
           /\ obs = frame.in

C7_Witness ==
    /\ failedAt = 3
    /\ pc = "fault"
    /\ CurrentStage = "enrichment"
    /\ Len(frame.acc) = 1

(***************************************************************************)
(* C8.                                                                     *)
(***************************************************************************)
\* The number of elements of seq that satisfy Test.
CountIf(seq, Test(_)) == Cardinality({k \in 1..Len(seq) : Test(seq[k])})

EnrichedAs(a) ==
    AnalyzedRecord(IF HasTitleField(a) THEN a.d.title ELSE "",
                   Generate(SentimentPrompt(a.d.description)),
                   Generate(CategoryPrompt(a.d.description)))

EnrichedList(seq) == [k \in 1..Len(seq) |-> EnrichedAs(seq[k])]

\* An article replit.py cannot enrich: it lacks the description or the title.
Incomplete(a) == ~(HasDescriptionField(a) /\ HasTitleField(a))

\* The first position of seq that holds an incomplete article, 0 if none.
FirstIncomplete(seq) ==
    IF \A k \in 1..Len(seq) : ~Incomplete(seq[k]) THEN 0
    ELSE CHOOSE k \in 1..Len(seq) :
             /\ Incomplete(seq[k])
             /\ \A j \in 1..(k - 1) : ~Incomplete(seq[j])

\* C9: on a list with an article that has no description, main_lang.py
\* returns the records of the other articles (the dropped one costs no
\* request) while replit.py never returns: it ends with KeyError at the
\* first article it cannot enrich, after two requests for each article
\* before it, and its partial list is lost; on a list in which every
\* article has title and description both return the same list, one
\* record per article.
C9_MissingDescriptionDivergence ==
    /\ (last.stage = "enrichment" /\ last.in.kind = "list")
        => /\ last.out = List(EnrichedList(SelectSeq(last.in.items, HasDescriptionField)))
           /\ impl = "replit" => \A k \in 1..Len(last.in.items) :
                                     /\ HasDescriptionField(last.in.items[k])
                                     /\ HasTitleField(last.in.items[k])
    /\ (last.stage = "enrichment" /\ last.in.kind = "list" /\ impl = "main_lang")
        => last.calls = 2 * Len(last.out.items)
    /\ (impl = "replit" /\ pc = "fault" /\ CurrentStage = "enrichment"
          /\ frame.in.kind = "list" /\ failedAt = 0)
        => /\ fault = "KeyError"
           /\ frame.i = FirstIncomplete(frame.items)
           /\ Len(frame.acc) = frame.i - 1
           /\ llmCount - frame.llm0 =
                2 * Len(frame.acc)
                  + (IF HasDescriptionField(frame.items[frame.i]) THEN 2 ELSE 0)
           /\ obs = frame.in
           /\ result = None

C9_Witness ==
    /\ impl = "replit"
    /\ pc = "fault"
    /\ fault = "KeyError"
    /\ CurrentStage = "enrichment"
    /\ Len(frame.items) = 2
    /\ frame.i = 2
    /\ HasTitleField(frame.items[2])
    /\ ~HasDescriptionField(frame.items[2])
    /\ Len(frame.acc) = 1
    /\ llmCount = 2

(***************************************************************************)
(* C10.                                                                    *)
(***************************************************************************)
\* The form carries a non-empty `query` field.
FormHasQuery == query.kind = "str" /\ query.s # <<>>

\* C10: the web form calls the pipeline only for a POST with a non-empty
\* `query` field, once, and renders the results page from what it
\* returned; a GET, or a POST without a non-empty field, renders the input
\* form with no stage started and no search or inference request.
C10_FormInvokesPipelineOnlyOnPost ==
    entry = "web"
        => /\ runCount = IF method = "POST" /\ FormHasQuery THEN 1 ELSE 0
           /\ ~(method = "POST" /\ FormHasQuery)
                => /\ pc = "done"
                   /\ page = HomePage
                   /\ trace = <<>>
                   /\ httpCount = 0
                   /\ llmCount = 0
           /\ (method = "POST" /\ FormHasQuery)
                => /\ page # HomePage
                   /\ pc = "done" => (page = ResultPage(query, result) /\ result = obs)
                   /\ pc # "done" => page = None

C10_Witness ==
    /\ entry = "web"
    /\ method = "POST"
    /\ pc = "done"
    /\ result.kind = "list"
    /\ Len(result.items) = 2
    /\ page = ResultPage(query, result)

====
